---- MODULE Spec2Model ----
(***************************************************************************)
(* Model of src/notification.py: class NotificationSystem and its main     *)
(* program.  One NotificationSystem is constructed with a ticker list,     *)
(* start_monitoring loads the previous-close baselines once and then runs  *)
(* the scheduler loop, which calls check_price once the one-minute job is  *)
(* due.                                                                    *)
(*                                                                         *)
(* Prices are integers (the price times ten: 100.0 is 1000).  The          *)
(* percentage change is kept exact: pct_change = PctChangeNum / prev_close *)
(* with prev_close > 0, so abs(pct_change) >= 1 is decided on integers.    *)
(* The two external services (yfinance, Twilio) are nondeterministic: a    *)
(* history of any length up to MaxHist, a current price or a KeyError, a   *)
(* delivered message or a raised transport exception.                      *)
(***************************************************************************)
EXTENDS Integers, Sequences, FiniteSets, TLC

VARIABLES
    tickers,            \* self.tickers
    prev_close_prices,  \* self.prev_close_prices: dict ticker -> close
    pc,                 \* position of the single thread of control
    i,                  \* position of the running for-loop in self.tickers
    hist,               \* local hist of get_prev_close_prices
    status,             \* this tick, per list position: "none" | "fail" | "ok"
    current_price,      \* this tick, per list position: current_price (0: none)
    compared,           \* this tick: positions whose pct_change was computed
    sent,               \* this tick: the send_sms calls, in order
    prevStatus,         \* status of the last tick that returned
    prevPrice,          \* current_price of the last tick that returned
    prevSent,           \* sent of the last tick that returned
    initRuns,           \* number of calls of get_prev_close_prices
    since,              \* seconds slept since the job was (re)scheduled
    exc                 \* the exception that ended the process, or "none"

vars == << tickers, prev_close_prices, pc, i, hist, status, current_price,
           compared, sent, prevStatus, prevPrice, prevSent, initRuns, since,
           exc >>

\* Longest history the market-data service returns for one symbol.
MaxHist == 2

\* schedule.every(1).minutes with time.sleep(1): the job is due after 60 sleeps.
Interval == 60

\* "if abs(pct_change) >= 1"
Threshold == 1

\* "* 100" of the percentage computation
Hundred == 100

\* Ticker lists the system is constructed with: the main program's list and
\* a list that names one symbol twice.
TickerLists == { << "SPY", "IWM", "QQQ" >>, << "SPY", "SPY" >> }

\* Closing prices the history may hold, and live prices fast_info may give.
\* Against 1000: 990 is -1% exactly, 992 is -0.8%, 1010 is +1% exactly.
\* Against 1001: 990 is below -1%, 992 and 1010 are within 1%.
Closes == { 1000, 1001 }
CurPrices == { 990, 992, 1010 }

RECURSIVE SeqsUpTo(_, _)
SeqsUpTo(S, n) ==
    IF n = 0 THEN { << >> }
    ELSE LET shorter == SeqsUpTo(S, n - 1)
         IN  shorter \cup { Append(s, x) : s \in shorter, x \in S }

Histories == SeqsUpTo(Closes, MaxHist)

EmptyDict == [ t \in {} |-> 0 ]

Positions == 1 .. Len(tickers)

NoStatus == [ k \in Positions |-> "none" ]
NoPrice == [ k \in Positions |-> 0 ]

Abs(x) == IF x < 0 THEN -x ELSE x

\* hist['Close'].iloc[0] if len(hist) >= 2 else hist['Close'].iloc[-1]
PrevCloseLast(h) == h[Len(h)]
PrevClose(h) == IF Len(h) >= 2 THEN h[1] ELSE h[Len(h)]

\* pct_change = ((current_price - prev_close) / prev_close) * 100, as the
\* numerator over prev_close.
PctChangeNum(c, p) == (c - p) * Hundred

\* abs(pct_change) >= 1, for prev_close > 0
AbsPctAtLeastStrict(c, p) == Abs(PctChangeNum(c, p)) > Threshold * p
AbsPctAtLeast(c, p) == Abs(PctChangeNum(c, p)) >= Threshold * p

\* 'rise' if pct_change > 0 else 'drop', for prev_close > 0
DirectionSwapped(c, p) == IF PctChangeNum(c, p) < 0 THEN "rise" ELSE "drop"
Direction(c, p) == IF PctChangeNum(c, p) > 0 THEN "rise" ELSE "drop"

\* self.prev_close_prices[ticker] = prev_close
DictSet(d, t, v) ==
    [ s \in (DOMAIN d) \cup { t } |-> IF s = t THEN v ELSE d[s] ]

tickVars == << status, current_price, compared, sent >>
prevVars == << prevStatus, prevPrice, prevSent >>

Init ==
    /\ tickers \in TickerLists
    /\ prev_close_prices = EmptyDict
    /\ pc = "main"
    /\ i = 0
    /\ hist = << >>
    /\ status = NoStatus
    /\ current_price = NoPrice
    /\ compared = {}
    /\ sent = << >>
    /\ prevStatus = NoStatus
    /\ prevPrice = NoPrice
    /\ prevSent = << >>
    /\ initRuns = 0
    /\ since = 0
    /\ exc = "none"

\* start_monitoring, line 93: the call of get_prev_close_prices.
StartMonitoringNoInit ==
    /\ pc = "main"
    /\ pc' = "loop"
    /\ UNCHANGED << tickers, prev_close_prices, i, hist, tickVars, prevVars,
                    initRuns, since, exc >>
StartMonitoring ==
    /\ pc = "main"
    /\ pc' = "init_fetch"
    /\ i' = 1
    /\ initRuns' = initRuns + 1
    /\ UNCHANGED << tickers, prev_close_prices, hist, tickVars, prevVars,
                    since, exc >>

\* get_prev_close_prices, lines 37-39: hist = stock.history(period='1d').
FetchHistory ==
    /\ pc = "init_fetch"
    /\ i <= Len(tickers)
    /\ \E h \in Histories : hist' = h
    /\ pc' = "init_store"
    /\ UNCHANGED << tickers, prev_close_prices, i, tickVars, prevVars,
                    initRuns, since, exc >>

\* get_prev_close_prices, lines 42-52: skip an empty history, else store.
StoreBaseline ==
    /\ pc = "init_store"
    /\ prev_close_prices' =
           IF hist = << >> THEN prev_close_prices
           ELSE DictSet(prev_close_prices, tickers[i], PrevClose(hist))
    /\ i' = i + 1
    /\ pc' = "init_fetch"
    /\ UNCHANGED << tickers, hist, tickVars, prevVars, initRuns, since, exc >>

\* get_prev_close_prices returns; line 94 schedules check_price every minute.
ScheduleJob ==
    /\ pc = "init_fetch"
    /\ i > Len(tickers)
    /\ pc' = "loop"
    /\ i' = 0
    /\ hist' = << >>
    /\ since' = 0
    /\ UNCHANGED << tickers, prev_close_prices, tickVars, prevVars, initRuns,
                    exc >>

\* Lines 97-99: run_pending finds the job not yet due; time.sleep(1).
Sleep ==
    /\ pc = "loop"
    /\ since < Interval
    /\ since' = since + 1
    /\ UNCHANGED << tickers, prev_close_prices, pc, i, hist, tickVars,
                    prevVars, initRuns, exc >>

\* Line 98: run_pending finds the job due and calls check_price.
RunPending ==
    /\ pc = "loop"
    /\ since >= Interval
    /\ pc' = "tick_fetch"
    /\ i' = 1
    /\ status' = NoStatus
    /\ current_price' = NoPrice
    /\ compared' = {}
    /\ sent' = << >>
    /\ UNCHANGED << tickers, prev_close_prices, hist, prevVars, initRuns,
                    since, exc >>

\* check_price, lines 59-62: current_price = stock.fast_info['last_price'].
FetchCurrentPrice ==
    /\ pc = "tick_fetch"
    /\ i <= Len(tickers)
    /\ \E c \in CurPrices :
           current_price' = [ current_price EXCEPT ![i] = c ]
    /\ status' = [ status EXCEPT ![i] = "ok" ]
    /\ pc' = "tick_compare"
    /\ UNCHANGED << tickers, prev_close_prices, i, hist, compared, sent,
                    prevVars, initRuns, since, exc >>

\* check_price, lines 63-65: except KeyError: print; continue.
FetchFailedBreak ==
    /\ pc = "tick_fetch"
    /\ i <= Len(tickers)
    /\ status' = [ status EXCEPT ![i] = "fail" ]
    /\ i' = Len(tickers) + 1
    /\ UNCHANGED << tickers, prev_close_prices, pc, hist, current_price,
                    compared, sent, prevVars, initRuns, since, exc >>
FetchFailed ==
    /\ pc = "tick_fetch"
    /\ i <= Len(tickers)
    /\ status' = [ status EXCEPT ![i] = "fail" ]
    /\ i' = i + 1
    /\ UNCHANGED << tickers, prev_close_prices, pc, hist, current_price,
                    compared, sent, prevVars, initRuns, since, exc >>

\* check_price, lines 68-70 for position k: compute pct_change and decide.
EvaluateDedup(k, c, p) ==
    /\ compared' = compared \cup { k }
    /\ IF AbsPctAtLeast(c, p)
          /\ ~(prevStatus[k] = "ok" /\ AbsPctAtLeast(prevPrice[k], p))
       THEN pc' = "tick_send" /\ i' = i
       ELSE pc' = "tick_fetch" /\ i' = k + 1
    /\ UNCHANGED << prev_close_prices, exc >>
EvaluateRefresh(k, c, p) ==
    /\ compared' = compared \cup { k }
    /\ IF AbsPctAtLeast(c, p)
       THEN pc' = "tick_send" /\ i' = i
       ELSE pc' = "tick_fetch" /\ i' = k + 1
    /\ prev_close_prices' = DictSet(prev_close_prices, tickers[k], c)
    /\ UNCHANGED exc
Evaluate(k, c, p) ==
    /\ compared' = compared \cup { k }
    /\ IF AbsPctAtLeast(c, p)
       THEN pc' = "tick_send" /\ i' = i
       ELSE pc' = "tick_fetch" /\ i' = k + 1
    /\ UNCHANGED << prev_close_prices, exc >>

\* check_price, lines 67-70: prev_close = self.prev_close_prices[ticker]
\* raises KeyError for a ticker without an entry; the lookup is outside the
\* try block, so the exception leaves check_price and the scheduler loop.
Compare ==
    /\ pc = "tick_compare"
    /\ IF tickers[i] \in DOMAIN prev_close_prices
       THEN Evaluate(i, current_price[i], prev_close_prices[tickers[i]])
       ELSE /\ exc' = "KeyError"
            /\ pc' = "crashed"
            /\ UNCHANGED << prev_close_prices, i, compared >>
    /\ UNCHANGED << tickers, hist, status, current_price, sent, prevVars,
                    initRuns, since >>

\* The message of line 72 (the timestamp is left out) and the call's outcome.
Message(k, ok) ==
    [ idx |-> k,
      ticker |-> tickers[k],
      direction |-> Direction(current_price[k], prev_close_prices[tickers[k]]),
      ok |-> ok ]

\* check_price, lines 71-73 and send_sms, lines 76-86: the transport either
\* delivers or raises; nothing catches the exception.
SendSmsCaught ==
    /\ pc = "tick_send"
    /\ \E ok \in BOOLEAN : sent' = Append(sent, Message(i, ok))
    /\ pc' = "tick_fetch"
    /\ i' = i + 1
    /\ UNCHANGED << tickers, prev_close_prices, hist, status, current_price,
                    compared, prevVars, initRuns, since, exc >>
SendSmsTwice ==
    /\ pc = "tick_send"
    /\ sent' = Append(Append(sent, Message(i, TRUE)), Message(i, TRUE))
    /\ pc' = "tick_fetch"
    /\ i' = i + 1
    /\ UNCHANGED << tickers, prev_close_prices, hist, status, current_price,
                    compared, prevVars, initRuns, since, exc >>
SendSms ==
    /\ pc = "tick_send"
    /\ \E ok \in BOOLEAN :
           /\ sent' = Append(sent, Message(i, ok))
           /\ IF ok
              THEN pc' = "tick_fetch" /\ i' = i + 1 /\ exc' = exc
              ELSE pc' = "crashed" /\ i' = i /\ exc' = "TransportError"
    /\ UNCHANGED << tickers, prev_close_prices, hist, status, current_price,
                    compared, prevVars, initRuns, since >>

\* check_price returns (the for-loop of line 59 is exhausted); schedule
\* re-arms the job for one minute later.
CheckPriceReturn ==
    /\ pc = "tick_fetch"
    /\ i > Len(tickers)
    /\ pc' = "loop"
    /\ i' = 0
    /\ since' = 0
    /\ prevStatus' = status
    /\ prevPrice' = current_price
    /\ prevSent' = sent
    /\ status' = NoStatus
    /\ current_price' = NoPrice
    /\ compared' = {}
    /\ sent' = << >>
    /\ UNCHANGED << tickers, prev_close_prices, hist, initRuns, exc >>

Next ==
    \/ StartMonitoring
    \/ FetchHistory
    \/ StoreBaseline
    \/ ScheduleJob
    \/ Sleep
    \/ RunPending
    \/ FetchCurrentPrice
    \/ FetchFailed
    \/ Compare
    \/ SendSms
    \/ CheckPriceReturn

Spec == Init /\ [][Next]_vars

\* The same loop under the assumption that every enabled step is eventually
\* taken: the external calls return and time.sleep(1) wakes up.
FairSpec == Spec /\ WF_vars(Next)

(***************************************************************************)
(* Vocabulary of the properties.                                           *)
(***************************************************************************)
InitDone == pc \notin { "main", "init_fetch", "init_store" }
InTick == pc \in { "tick_fetch", "tick_compare", "tick_send" }
HasBaseline(k) == tickers[k] \in DOMAIN prev_close_prices
AllBaselines == \A k \in Positions : HasBaseline(k)
NoDuplicates == \A a, b \in Positions : tickers[a] = tickers[b] => a = b
\* The loop body of check_price is over for position k of this tick.
Finished(k) == k < i \/ (k = i /\ pc = "crashed")
\* check_price is over for this tick: it returned or an exception left it.
TickEnded == pc = "crashed" \/ (pc = "tick_fetch" /\ i > Len(tickers))
SentAt(k) == { n \in 1 .. Len(sent) : sent[n].idx = k }
CountFor(log, s) == Cardinality({ n \in 1 .. Len(log) : log[n].ticker = s })

\* C1 (as claimed): a tracked symbol without a baseline after startup is
\* never evaluated and never alerted, and its missing baseline never ends a
\* tick: no exception leaves check_price at that symbol, whether or not its
\* current price is available.
C1_MissingBaselineNonFatal ==
    \A k \in Positions :
        (InitDone /\ ~HasBaseline(k)) =>
            /\ k \notin compared
            /\ SentAt(k) = {}
            /\ ~(pc = "crashed" /\ i = k)

C3_FailureNeverStopsLaterSymbols ==
    \A x \in Positions :
        (AllBaselines /\ TickEnded /\ status[x] = "fail") =>
            /\ SentAt(x) = {}
            /\ \A k \in Positions :
                   k > x => /\ status[k] # "none"
                            /\ status[k] = "ok" => k \in compared

\* C3 (amended): a fetch failure for X never ends the tick at X and X sends
\* no alert in that tick; control passes to the next tracked symbol, and
\* every symbol after X whose loop body is over was fetched and, its price
\* obtained and its baseline present, compared.  Symbols after the point
\* where an exception leaves check_price are not reached.
C3_FailureIsSkippedOnly ==
    \A x \in Positions :
        status[x] = "fail" =>
            /\ SentAt(x) = {}
            /\ x \notin compared
            /\ i > x
            /\ \A k \in Positions :
                   (k > x /\ Finished(k)) =>
                       /\ status[k] # "none"
                       /\ (status[k] = "ok" /\ HasBaseline(k))
                              => k \in compared

\* C3 witness: check_price returned from a tick in which the first symbol's
\* fetch failed and a later symbol was compared and alerted.
C3_Witness ==
    /\ pc = "tick_fetch" /\ i > Len(tickers)
    /\ Len(tickers) >= 3
    /\ status[1] = "fail"
    /\ \A k \in Positions : k > 1 => (status[k] = "ok" /\ k \in compared)
    /\ \E k \in Positions : k > 1 /\ SentAt(k) # {}

C5_NoDeduplication ==
    NoDuplicates =>
        \A k \in Positions :
            ( /\ prevStatus[k] = "ok" /\ status[k] = "ok"
              /\ HasBaseline(k) /\ Finished(k)
              /\ 100 * (IF prevPrice[k] >= prev_close_prices[tickers[k]]
                        THEN prevPrice[k] - prev_close_prices[tickers[k]]
                        ELSE prev_close_prices[tickers[k]] - prevPrice[k])
                     >= prev_close_prices[tickers[k]]
              /\ 100 * (IF current_price[k] >= prev_close_prices[tickers[k]]
                        THEN current_price[k] - prev_close_prices[tickers[k]]
                        ELSE prev_close_prices[tickers[k]] - current_price[k])
                     >= prev_close_prices[tickers[k]] )
            => /\ CountFor(prevSent, tickers[k]) = 1
               /\ CountFor(sent, tickers[k]) = 1

\* C5 witness: the same symbol at the same qualifying price was alerted in
\* the previous tick and again in this one.
C5_Witness ==
    /\ NoDuplicates
    /\ \E k \in Positions :
           /\ prevStatus[k] = "ok" /\ status[k] = "ok"
           /\ prevPrice[k] = current_price[k]
           /\ Finished(k)
           /\ CountFor(prevSent, tickers[k]) = 1
           /\ CountFor(sent, tickers[k]) = 1

\* A step that begins a check_price tick.
TickStarts == ~InTick /\ pc' = "tick_fetch"

\* C6: get_prev_close_prices is called once, from start_monitoring and never
\* again; a tick begins only from the scheduler loop, that is after the one
\* initialization has returned and with no other tick in progress; and ticks
\* keep beginning for as long as no exception has ended the process.
C6_InitOnceThenTicks ==
    /\ [][ /\ initRuns' # initRuns => (initRuns = 0 /\ pc = "main")
           /\ TickStarts => (pc = "loop" /\ initRuns = 1 /\ i = 0)
           /\ InTick => initRuns = 1 ]_vars
    /\ ([]<>(pc = "tick_fetch" /\ i = 1) \/ <>[](pc = "crashed"))

\* C6 witness: a second tick is running after the one initialization.
C6_Witness ==
    /\ pc = "tick_fetch" /\ i = 1
    /\ initRuns = 1
    /\ prevStatus # NoStatus

\* C7: every message sent names the symbol at its list position, and says
\* "rise" exactly when the current price is above the baseline, "drop"
\* otherwise.
C7_DirectionLabel ==
    \A n \in 1 .. Len(sent) :
        LET m == sent[n]
            C == current_price[m.idx]
            B == prev_close_prices[m.ticker]
        IN  /\ m.ticker = tickers[m.idx]
            /\ m.direction = (IF C > B THEN "rise" ELSE "drop")

\* C7 witness: one tick sent a rise and a drop.
C7_Witness ==
    \E a, b \in 1 .. Len(sent) :
        /\ sent[a].direction = "rise"
        /\ current_price[sent[a].idx] > prev_close_prices[sent[a].ticker]
        /\ sent[b].direction = "drop"
        /\ current_price[sent[b].idx] < prev_close_prices[sent[b].ticker]

\* C8: once get_prev_close_prices has returned, no step changes the
\* baseline table, and no step ever changes the ticker list.
C8_BaselinesFrozen ==
    [][ /\ tickers' = tickers
        /\ InitDone => prev_close_prices' = prev_close_prices ]_vars

\* C8 witness: a tick with a failed fetch and an alert has returned and the
\* table still holds an entry.
C8_Witness ==
    /\ pc = "loop"
    /\ prevSent # << >>
    /\ \E k \in Positions : prevStatus[k] = "fail"
    /\ DOMAIN prev_close_prices # {}

\* C9: a failed send_sms is the last thing the run does: the process is
\* ended by the transport exception at that symbol, no later symbol of the
\* tick was fetched, no send follows it, no tick that returned holds a failed
\* send, and the ended process takes no further step.
C9_TransportFailureIsFatal ==
    /\ [](/\ \A n \in 1 .. Len(sent) :
                ~sent[n].ok =>
                    /\ pc = "crashed" /\ exc = "TransportError"
                    /\ n = Len(sent)
                    /\ i = sent[n].idx
                    /\ \A k \in Positions : k > i => status[k] = "none"
          /\ \A n \in 1 .. Len(prevSent) : prevSent[n].ok)
    /\ [][pc = "crashed" => UNCHANGED vars]_vars

\* C9 witness: the transport failed with symbols of the tick still to come,
\* in a tick after the first.
C9_Witness ==
    /\ pc = "crashed" /\ exc = "TransportError"
    /\ i < Len(tickers)
    /\ prevStatus # NoStatus
    /\ ~sent[Len(sent)].ok

\* C10 (as claimed), on runs in which every tracked symbol has a baseline:
\* with a duplicate-free list a tick sends at most one alert per symbol, and
\* when a tick is over, every symbol whose fetch failed in the tick before
\* was fetched again in it and, its price obtained, compared and alerted if
\* the deviation met the threshold.
C10_RefetchedOnNextTick ==
    (NoDuplicates /\ AllBaselines) =>
        /\ \A k \in Positions : CountFor(sent, tickers[k]) <= 1
        /\ \A k \in Positions :
               (prevStatus[k] = "fail" /\ TickEnded) =>
                   /\ status[k] # "none"
                   /\ status[k] = "ok" =>
                       /\ k \in compared
                       /\ 100 * (IF current_price[k]
                                        >= prev_close_prices[tickers[k]]
                                 THEN current_price[k]
                                        - prev_close_prices[tickers[k]]
                                 ELSE prev_close_prices[tickers[k]]
                                        - current_price[k])
                              >= prev_close_prices[tickers[k]]
                          => SentAt(k) # {}

\* C10 (amended): with a duplicate-free list a tick sends at most one alert
\* per symbol; a symbol whose fetch failed in the tick before carries no
\* state into this tick: once the loop body is over for it, it was fetched
\* again and, its price obtained and its baseline present, compared and
\* alerted exactly when the deviation met the threshold.
C10_SkippedForOneTickOnly ==
    NoDuplicates =>
        /\ \A k \in Positions : CountFor(sent, tickers[k]) <= 1
        /\ \A k \in Positions :
               (prevStatus[k] = "fail" /\ Finished(k)) =>
                   /\ status[k] # "none"
                   /\ (status[k] = "ok" /\ HasBaseline(k)) =>
                       /\ k \in compared
                       /\ SentAt(k) # {} <=>
                              100 * (IF current_price[k]
                                            >= prev_close_prices[tickers[k]]
                                     THEN current_price[k]
                                            - prev_close_prices[tickers[k]]
                                     ELSE prev_close_prices[tickers[k]]
                                            - current_price[k])
                                  >= prev_close_prices[tickers[k]]

\* C10 witness: a symbol whose fetch failed in the previous tick was fetched
\* in this one and alerted.
C10_Witness ==
    /\ NoDuplicates
    /\ \E k \in Positions :
           /\ prevStatus[k] = "fail"
           /\ status[k] = "ok"
           /\ Finished(k)
           /\ CountFor(sent, tickers[k]) = 1

====
